---- MODULE Spec2Model ----
(***************************************************************************)
(* A model of the Cloudflare Worker URL shortener (src/index.js) and of    *)
(* the short_urls table behind it (src/unnamed/part_000).                  *)
(*                                                                         *)
(* Each worker invocation serves one request.  A request is modelled as a  *)
(* small process: the router and the handler up to its first store call    *)
(* are one step, every insert of the create loop is a call step and an     *)
(* answer step, and Finish ends the invocation.  Text is modelled as       *)
(* sequences of one-character strings, decoded bytes as sequences of       *)
(* integers.                                                               *)
(***************************************************************************)
EXTENDS Integers, Sequences, FiniteSets, TLC

VARIABLES env, store, created, req

vars == <<env, store, created, req>>

(***************************************************************************)
(* Text helpers                                                            *)
(***************************************************************************)

\* The printable ASCII characters, code points 32..126, in order (the
\* double quote, the backslash and the backtick are spelled out).
PrintableAscii ==
  <<
     " ", "!", "QUOTE", "#", "$", "%", "&", "'", "(", ")", "*", "+", ",", "-", ".", "/",
     "0", "1", "2", "3", "4", "5", "6", "7", "8", "9", ":", ";", "<", "=", ">", "?",
     "@", "A", "B", "C", "D", "E", "F", "G", "H", "I", "J", "K", "L", "M", "N", "O",
     "P", "Q", "R", "S", "T", "U", "V", "W", "X", "Y", "Z", "[", "BACKSLASH", "]", "^", "_",
     "BACKTICK", "a", "b", "c", "d", "e", "f", "g", "h", "i", "j", "k", "l", "m", "n", "o",
     "p", "q", "r", "s", "t", "u", "v", "w", "x", "y", "z", "{", "|", "}", "~" >>

\* String.prototype.charCodeAt for a printable ASCII character.
Ord(c) == 31 + CHOOSE i \in 1..Len(PrintableAscii) : PrintableAscii[i] = c

\* A text as the sequence of its character codes.
Bytes(s) == [i \in 1..Len(s) |-> Ord(s[i])]

\* The base64 alphabet in value order (value = index - 1).
B64Alphabet ==
  <<
     "A", "B", "C", "D", "E", "F", "G", "H", "I", "J", "K", "L", "M", "N", "O", "P",
     "Q", "R", "S", "T", "U", "V", "W", "X", "Y", "Z", "a", "b", "c", "d", "e", "f",
     "g", "h", "i", "j", "k", "l", "m", "n", "o", "p", "q", "r", "s", "t", "u", "v",
     "w", "x", "y", "z", "0", "1", "2", "3", "4", "5", "6", "7", "8", "9", "+", "/" >>

IsB64Char(c) == \E i \in 1..Len(B64Alphabet) : B64Alphabet[i] = c

B64Val(c) == (CHOOSE i \in 1..Len(B64Alphabet) : B64Alphabet[i] = c) - 1

AsciiWhitespace == {" "}

\* String.prototype.startsWith
StartsWith(s, prefix) ==
  /\ Len(s) >= Len(prefix)
  /\ SubSeq(s, 1, Len(prefix)) = prefix

\* String.prototype.substring(n): the text from 0-based index n on.
Substring(s, n) == SubSeq(s, n + 1, Len(s))

\* String.prototype.split(sep) for a one-character separator, on byte texts:
\* every piece between separators, empty pieces included.
RECURSIVE Split(_, _)
Split(s, sep) ==
  IF \A i \in 1..Len(s) : s[i] # sep
  THEN <<s>>
  ELSE LET k == CHOOSE i \in 1..Len(s) :
                   /\ s[i] = sep
                   /\ \A j \in 1..(i - 1) : s[j] # sep
       IN <<SubSeq(s, 1, k - 1)>> \o Split(SubSeq(s, k + 1, Len(s)), sep)

(***************************************************************************)
(* atob: the forgiving-base64 decode the platform applies (index.js:24)    *)
(***************************************************************************)

StripWhitespace(s) == SelectSeq(s, LAMBDA c : c \notin AsciiWhitespace)

\* With a length divisible by 4, one or two trailing "=" are removed.
StripPadding(s) ==
  IF Len(s) % 4 = 0 /\ Len(s) > 0 /\ s[Len(s)] = "="
  THEN IF Len(s) > 1 /\ s[Len(s) - 1] = "="
       THEN SubSeq(s, 1, Len(s) - 2)
       ELSE SubSeq(s, 1, Len(s) - 1)
  ELSE s

AtobInput(s) == StripPadding(StripWhitespace(s))

\* atob throws InvalidCharacterError on these inputs.
AtobThrows(s) ==
  LET d == AtobInput(s)
  IN \/ Len(d) % 4 = 1
     \/ \E i \in 1..Len(d) : ~IsB64Char(d[i])

\* The bytes of one group of 2, 3 or 4 base64 characters.
DecodeGroup(g) ==
  LET v(i) == IF i <= Len(g) THEN B64Val(g[i]) ELSE 0
      bits == ((v(1) * 64 + v(2)) * 64 + v(3)) * 64 + v(4)
      all  == << bits \div 65536, (bits \div 256) % 256, bits % 256 >>
  IN SubSeq(all, 1, Len(g) - 1)

RECURSIVE DecodeGroups(_)
DecodeGroups(d) ==
  IF Len(d) = 0 THEN << >>
  ELSE IF Len(d) <= 4 THEN DecodeGroup(d)
  ELSE DecodeGroup(SubSeq(d, 1, 4)) \o DecodeGroups(SubSeq(d, 5, Len(d)))

\* atob(s), defined where AtobThrows(s) is false: the decoded byte text.
Atob(s) == DecodeGroups(AtobInput(s))

(***************************************************************************)
(* Values                                                                  *)
(***************************************************************************)

\* A JavaScript value that may be null/undefined: a header, a form field,
\* a query parameter, a JSON property.
Absent == [present |-> FALSE, value |-> ""]
Some(v) == [present |-> TRUE, value |-> v]

\* !x for such a value when it holds a string: null, undefined and "".
Falsy(x) == ~x.present \/ x.value = ""

\* The same for a header whose text is a character sequence.
NoHeader == [present |-> FALSE, value |-> << >>]
Header(chars) == [present |-> TRUE, value |-> chars]

\* Candidates generateShortCode can return (six alphanumeric characters).
GenCodes == {"aB3xY9", "Qw8zT1"}

\* Codes a caller supplies: one that the generator can also produce, and
\* one that spells a route of the worker.
CustomCodes == {"aB3xY9", "short"}

Codes == GenCodes \cup CustomCodes

\* Original URLs: an absolute one, and a non-empty string that is no
\* absolute URL (nothing validates well-formedness, index.js:148, 272).
AbsoluteUrls == {"https://example.com/long"}

Urls == AbsoluteUrls \cup {"example.com"}

(***************************************************************************)
(* The short_urls table (part_000:4-9) as the worker sees it through REST  *)
(***************************************************************************)

Rows == [short_code : Codes, original_url : Urls]

\* The rows the filter short_code=eq.<code> matches.
Matching(table, code) == {r \in table : r.short_code = code}

\* short_code TEXT NOT NULL UNIQUE
UniqueShortCode(table) ==
  \A r1, r2 \in table : r1.short_code = r2.short_code => r1 = r2

\* The words of a response body that the handlers search with includes().
ErrorText(answer) ==
  CASE answer = "unique"  ->
         <<"duplicate", "key", "value", "violates", "unique", "constraint">>
    [] answer = "denied"  ->
         <<"new", "row", "violates", "row-level", "security", "policy">>
    [] answer = "mentions" ->
         <<"there", "is", "no", "unique", "constraint", "matching">>
    [] OTHER -> << >>

\* String.prototype.includes, on the words of a body.
Includes(text, word) == \E i \in 1..Len(text) : text[i] = word

\* A variant of the table declared without UNIQUE on short_code.
InsertAnswersNoUnique(table, code) == {"created", "denied", "mentions", "throw"}

\* How the table can answer POST /rest/v1/short_urls for a row: it stores
\* the row unless the UNIQUE constraint forbids it, or it fails for another
\* reason: "denied" and "mentions" are error responses for something other
\* than a duplicate code, the body of the second holds the word "unique";
\* "throw" is a rejected fetch.
InsertAnswers(table, code) ==
  (IF Matching(table, code) = {} THEN {"created"} ELSE {"unique"})
    \cup {"denied", "mentions", "throw"}

\* A variant of insertShortUrl that asks the table to merge duplicates: the
\* row replaces the one the code already has.
insertShortUrlUpsert(table, answer, shortCode, originalUrl) ==
  IF answer \in {"created", "unique"}
  THEN (table \ Matching(table, shortCode))
         \cup {[short_code |-> shortCode, original_url |-> originalUrl]}
  ELSE table

\* The table after the insert was answered.
insertShortUrl(table, answer, shortCode, originalUrl) ==
  IF answer = "created"
  THEN table \cup {[short_code |-> shortCode, original_url |-> originalUrl]}
  ELSE table

\* Response.ok of an insert's answer.
InsertOk(answer) == answer = "created"

\* How the table can answer a select or a delete: "rows" is a 2xx answer,
\* "error" an error response with a JSON object body, "throw" a rejected
\* fetch or a body that is no JSON.
QueryAnswers == {"rows", "error", "throw"}

\* A variant of getShortUrl whose test is data.length > 1.
getShortUrlOffByOne(table, answer, shortCode) ==
  LET data == IF answer = "rows" THEN Matching(table, shortCode) ELSE {}
  IN IF Cardinality(data) > 1
     THEN [present |-> TRUE, row |-> CHOOSE r \in data : TRUE]
     ELSE [present |-> FALSE,
           row |-> [short_code |-> shortCode, original_url |-> ""]]

\* getShortUrl (index.js:85-97): data.length > 0 ? data[0] : null, where an
\* error object has no length.
getShortUrl(table, answer, shortCode) ==
  LET data == IF answer = "rows" THEN Matching(table, shortCode) ELSE {}
  IN IF data # {}
     THEN [present |-> TRUE, row |-> CHOOSE r \in data : TRUE]
     ELSE [present |-> FALSE,
           row |-> [short_code |-> shortCode, original_url |-> ""]]

\* A variant of deleteShortUrl whose URL carries no short_code filter.
deleteShortUrlNoFilter(table, answer, shortCode) ==
  IF answer = "rows" THEN {} ELSE table

\* deleteShortUrl (index.js:99-111): the table after the delete was answered.
deleteShortUrl(table, answer, shortCode) ==
  IF answer = "rows" THEN table \ Matching(table, shortCode) ELSE table

(***************************************************************************)
(* Credential verification (index.js:17-44)                                *)
(***************************************************************************)

BasicPrefix == <<"B", "a", "s", "i", "c", " ">>

\* btoa, as a client applies it to build the header: three bytes become
\* four base64 characters, a shorter tail is padded with "=".
EncodeGroup(b) ==
  LET v(i) == IF i <= Len(b) THEN b[i] ELSE 0
      bits == (v(1) * 256 + v(2)) * 256 + v(3)
      ch(k) == B64Alphabet[k + 1]
      all  == << ch(bits \div 262144), ch((bits \div 4096) % 64),
                 ch((bits \div 64) % 64), ch(bits % 64) >>
  IN SubSeq(all, 1, Len(b) + 1) \o [i \in 1..(3 - Len(b)) |-> "="]

RECURSIVE Btoa(_)
Btoa(b) ==
  IF Len(b) = 0 THEN << >>
  ELSE IF Len(b) <= 3 THEN EncodeGroup(b)
  ELSE EncodeGroup(SubSeq(b, 1, 3)) \o Btoa(SubSeq(b, 4, Len(b)))

\* The Authorization header a client sends for a user and a password
\* (RFC 7617): Basic base64(user ":" password).
BasicHeader(user, pass) ==
  Header(BasicPrefix \o Btoa(Bytes(user \o <<":">> \o pass)))

\* authHeader.substring(6), the base64 part of a Basic header.
Base64Credentials(authHeader) == Substring(authHeader.value, 6)

\* Line 19: no header, an empty one, or one that is not of the Basic scheme.
NotBasic(authHeader) ==
  \/ ~authHeader.present
  \/ authHeader.value = << >>
  \/ ~StartsWith(authHeader.value, BasicPrefix)

\* verifyBasicAuth ends in the exception atob throws (line 24).
verifyBasicAuthThrows(authHeader) ==
  /\ ~NotBasic(authHeader)
  /\ AtobThrows(Base64Credentials(authHeader))

\* const [username, password] = credentials.split(':'): the first two
\* pieces; password is undefined when there is no second piece.
verifyBasicAuth(authHeader, config) ==
  IF NotBasic(authHeader) THEN FALSE
  ELSE LET credentials == Atob(Base64Credentials(authHeader))
           pieces == Split(credentials, Ord(":"))
       IN /\ pieces[1] = Bytes(config.BASIC_AUTH_USER)
          /\ Len(pieces) >= 2
          /\ pieces[2] = Bytes(config.BASIC_AUTH_PASS)

\* A variant of verifyApiKey that compares with ==, under which null and
\* undefined are equal.
verifyApiKeyLoose(apiKey, config) ==
  \/ ~apiKey.present /\ ~config.API_SECRET.present
  \/ /\ apiKey.present
     /\ config.API_SECRET.present
     /\ apiKey.value = config.API_SECRET.value

\* verifyApiKey (index.js:31-34): headers.get gives null for a missing
\* header, and null === undefined is false.
verifyApiKey(apiKey, config) ==
  /\ apiKey.present
  /\ config.API_SECRET.present
  /\ apiKey.value = config.API_SECRET.value

(***************************************************************************)
(* Requests and responses                                                  *)
(***************************************************************************)

\* A variant of maxRetries, one attempt more.
maxRetriesHigh == 5 + 1

\* A variant of maxRetries, one attempt short.
maxRetriesLow == 5 - 1

\* let maxRetries = 5 (index.js:154, 281)
maxRetries == 5

Methods == {"GET", "POST", "DELETE"}

\* url.pathname of the requests modelled: the four routes and /<code>.
Paths == {"/", "/short", "/api-short", "/api-docs"} \cup {"/" \o c : c \in Codes}

\* path.substring(1) (index.js:544)
PathCode(path) == CHOOSE c \in Codes \cup {"api-short", "api-docs"} : "/" \o c = path

\* The longest password modelled.
MaxPassLen == 2

\* Passwords over a two-letter credential alphabet that holds the ":"
\* separator (RFC 7617 allows it in a password, not in a user name).
Passwords == UNION {[1..n -> {"p", ":"}] : n \in 1..MaxPassLen}

UserName == <<"u", "s", "e", "r">>

UserNames == {UserName, <<"u", "s", "e", "x">>}

\* The configuration the worker is deployed with.
Config == [BASIC_AUTH_USER |-> UserName,
           BASIC_AUTH_PASS |-> <<"p", "p">>,
           API_SECRET      |-> Some("s3cret")]

\* Authorization headers of the requests modelled: none, another scheme,
\* a Basic header whose credentials are no base64 text, one whose
\* credentials hold no ":", one whose password is the deployed API secret,
\* and every user name with every password.
AuthorizationHeaders ==
  { NoHeader,
    Header(<<"B", "e", "a", "r", "e", "r", " ", "d", "X", "N", "l">>),
    Header(BasicPrefix \o <<"u", "s", "e", "r", ":", "p", "p">>),
    Header(BasicPrefix \o Btoa(Bytes(UserName))),
    BasicHeader(UserName, <<"s", "3", "c", "r", "e", "t">>) }
  \cup {BasicHeader(user, pass) : user \in UserNames, pass \in Passwords}

\* X-API-Key headers of the requests modelled: none, an empty one, the
\* deployed secret, the deployed UI password and another value.
ApiKeyHeaders == {Absent, Some(""), Some("s3cret"), Some("pp"), Some("guess")}

\* What a request carries for the scheme its route does not use: an
\* X-API-Key header on /short, an Authorization header on /api-short.
\* Neither handler reads it.
OtherApiKeyHeaders == {Absent, Some("s3cret")}

OtherAuthorizationHeaders == {NoHeader, BasicHeader(UserName, <<"p", "p">>)}

\* Form fields / JSON properties of a create request.
UrlInputs == {Absent, Some("")} \cup {Some(u) : u \in Urls}
CustomCodeInputs == {Absent} \cup {Some(c) : c \in CustomCodes}

\* The code query parameter of an API request.
CodeParams == {Absent} \cup {Some(c) : c \in Codes}

NoResponse == [status |-> 0, kind |-> "none", code |-> "", url |-> "",
               challenge |-> FALSE]

\* request.formData() / request.json(): the body has not been read, was
\* parsed, or could not be parsed.
BodyStates == {"unread", "parsed", "malformed"}

\* new Response(...) with the status, the kind of body, and the short code
\* and URL the body or the Location header carries.
Response(status, kind, code, url) ==
  [status |-> status, kind |-> kind, code |-> code, url |-> url,
   challenge |-> FALSE]

\* requireBasicAuth (index.js:37-44)
requireBasicAuth ==
  [status |-> 401, kind |-> "authRequired", code |-> "", url |-> "",
   challenge |-> TRUE]

\* An exception no handler catches: the platform answers with its own
\* error page.
Uncaught == Response(500, "uncaught", "", "")

IdleRequest ==
  [pc |-> "idle", path |-> "", method |-> "",
   authorization |-> NoHeader, apiKey |-> Absent, code |-> Absent,
   body |-> "unread", originalUrl |-> Absent, customCode |-> Absent,
   shortCode |-> "", retries |-> 0,
   inserts |-> 0, outstanding |-> 0, selects |-> 0, deletes |-> 0,
   answer |-> "",
   resp |-> NoResponse]

\* The invocations the platform runs: one at a time here, the worker serves
\* request after request.
Procs == {"w1"}

Init ==
  /\ env = Config
  /\ store = {}
  /\ created = [c \in Codes |-> Absent]
  /\ req = [p \in Procs |-> IdleRequest]

\* The handler of invocation p returns the response r.
Respond(p, r, fields) ==
  req' = [req EXCEPT ![p] = [fields EXCEPT !.pc = "done", !.resp = r]]

\* The request line and headers of a new request.
Arrives(p, path, method) ==
  /\ req[p].pc = "idle"
  /\ path \in Paths
  /\ method \in Methods

NewRequest(path, method) ==
  [IdleRequest EXCEPT !.path = path, !.method = method]

(***************************************************************************)
(* The router (index.js:521-552)                                           *)
(***************************************************************************)

\* Which handler fetch() dispatches a path to.  Every path modelled other
\* than "/" has a non-empty path.substring(1), so the closing handle404()
\* of fetch is never reached.
Route(path) ==
  IF path = "/" THEN "handleIndex"
  ELSE IF path = "/short" THEN "handleShortUI"
  ELSE IF path = "/api-short" THEN "handleApiShort"
  ELSE IF path = "/api-docs" THEN "handleApiDocs"
  ELSE "handleRedirect"

\* The paths fetch() dispatches to a handler.
PathsOf(handler) == {path \in Paths : Route(path) = handler}

\* generateShortCode (index.js:7-14): any of the candidates.
generateShortCode == GenCodes

\* A variant of isDuplicate that looks for another word.
isDuplicateConflict(errorText) == Includes(errorText, "conflict")

\* errorText.includes('duplicate') || errorText.includes('unique')
isDuplicate(errorText) ==
  Includes(errorText, "duplicate") \/ Includes(errorText, "unique")

(***************************************************************************)
(* Handlers                                                                *)
(***************************************************************************)

\* handleIndex (index.js:115-134)
handleIndex(p) ==
  /\ req[p].pc = "idle"
  /\ \E path \in PathsOf("handleIndex"), method \in Methods :
       /\ Arrives(p, path, method)
       /\ Route(path) = "handleIndex"
       /\ Respond(p, Response(200, "index", "", ""), NewRequest(path, method))
       /\ UNCHANGED <<env, store, created>>

\* handleApiDocs (index.js:427-518)
handleApiDocs(p) ==
  /\ req[p].pc = "idle"
  /\ \E path \in PathsOf("handleApiDocs"), method \in Methods :
       /\ Arrives(p, path, method)
       /\ Route(path) = "handleApiDocs"
       /\ Respond(p, Response(200, "docs", "", ""), NewRequest(path, method))
       /\ UNCHANGED <<env, store, created>>

\* The head of handleShortUI (index.js:136-138): the request and its
\* Authorization header.  verifyBasicAuth runs outside any try block.
ShortUIRequest(p, path, method, authorization) ==
  /\ Arrives(p, path, method)
  /\ Route(path) = "handleShortUI"
  /\ authorization \in AuthorizationHeaders

\* handleShortUI, the credentials are refused (index.js:138-140), or atob
\* throws on them.
handleShortUIDenied(p) ==
  /\ req[p].pc = "idle"
  /\ \E path \in PathsOf("handleShortUI"), method \in Methods, authorization \in AuthorizationHeaders,
        apiKey \in OtherApiKeyHeaders :
       LET r == [NewRequest(path, method) EXCEPT !.authorization = authorization,
                                                !.apiKey = apiKey]
       IN /\ ShortUIRequest(p, path, method, authorization)
          /\ UNCHANGED <<env, store, created>>
          /\ \/ /\ verifyBasicAuthThrows(authorization)
                /\ Respond(p, Uncaught, r)
             \/ /\ ~verifyBasicAuthThrows(authorization)
                /\ ~verifyBasicAuth(authorization, env)
                /\ Respond(p, requireBasicAuth, r)

\* handleShortUI, the form page for any method but POST (index.js:219-251).
handleShortUIForm(p) ==
  /\ req[p].pc = "idle"
  /\ \E path \in PathsOf("handleShortUI"), method \in Methods, authorization \in AuthorizationHeaders,
        apiKey \in OtherApiKeyHeaders :
       /\ ShortUIRequest(p, path, method, authorization)
       /\ method # "POST"
       /\ ~verifyBasicAuthThrows(authorization)
       /\ verifyBasicAuth(authorization, env)
       /\ Respond(p, Response(200, "form", "", ""),
                  [NewRequest(path, method) EXCEPT !.authorization = authorization,
                                                  !.apiKey = apiKey])
       /\ UNCHANGED <<env, store, created>>

\* The handler has returned the response resp.
Returned(r, resp) == [r EXCEPT !.pc = "done", !.resp = resp]

\* handleShortUI after the form was read (index.js:145-155): the url check,
\* and the first short code.
ShortUIBegin(r, originalUrl, customCode, generated) ==
  LET f == [r EXCEPT !.body = "parsed",
                     !.originalUrl = originalUrl,
                     !.customCode = customCode]
  IN IF Falsy(originalUrl)
     THEN Returned(f, Response(400, "urlRequired", "", ""))
     ELSE [f EXCEPT !.pc = "insert",
                    !.shortCode = IF Falsy(customCode) THEN generated
                                  ELSE customCode.value,
                    !.retries = 0]

\* handleShortUI, POST up to its first insert (index.js:143-155).
\* request.formData() runs outside the try block.
handleShortUIPost(p) ==
  /\ req[p].pc = "idle"
  /\ \E path \in PathsOf("handleShortUI"), method \in Methods,
        authorization \in AuthorizationHeaders, apiKey \in OtherApiKeyHeaders :
       LET r == [NewRequest(path, method) EXCEPT !.authorization = authorization,
                                                !.apiKey = apiKey]
       IN /\ ShortUIRequest(p, path, method, authorization)
          /\ method = "POST"
          /\ ~verifyBasicAuthThrows(authorization)
          /\ verifyBasicAuth(authorization, env)
          /\ UNCHANGED <<env, store, created>>
          /\ \/ \* the body is no form data: formData() throws
                Respond(p, Uncaught, [r EXCEPT !.body = "malformed"])
             \/ \E originalUrl \in UrlInputs, customCode \in CustomCodeInputs,
                   generated \in generateShortCode :
                  req' = [req EXCEPT ![p] =
                            ShortUIBegin(r, originalUrl, customCode, generated)]

\* The loop condition and the call of insertShortUrl (index.js:161-162,
\* 287-288; 65-80): the handler sends the insert and awaits the response.
insertShortUrlCall(p) ==
  /\ req[p].pc = "insert"
  /\ req[p].retries < maxRetries
  /\ req' = [req EXCEPT ![p].pc = "awaiting", ![p].outstanding = @ + 1]
  /\ UNCHANGED <<env, store, created>>

\* The rest of a turn of handleShortUI's retry loop, and the success page
\* after it (index.js:162-216): what the handler does with the table's
\* answer to its insert.
ShortUITurn(r, answer, generated) ==
  LET f == [r EXCEPT !.inserts = @ + 1, !.outstanding = @ - 1,
                     !.answer = answer]
      errorText == ErrorText(answer)
  IN IF answer = "throw"
     THEN Returned(f, Response(500, "exception", "", ""))
     ELSE IF InsertOk(answer)
     THEN Returned(f, Response(200, "success", r.shortCode, r.originalUrl.value))
     ELSE IF ~Falsy(r.customCode) /\ isDuplicate(errorText)
     THEN Returned(f, Response(400, "duplicate", r.customCode.value, ""))
     ELSE IF Falsy(r.customCode) /\ isDuplicate(errorText)
             /\ r.retries < maxRetries - 1
     THEN [f EXCEPT !.pc = "insert", !.shortCode = generated, !.retries = @ + 1]
     ELSE Returned(f, Response(400, "createFailed", "", ""))

\* The table answers the insert of a POST to /short (index.js:162-216).
ShortUIInsert(p) ==
  LET r == req[p] IN
  /\ r.pc = "awaiting"
  /\ Route(r.path) = "handleShortUI"
  /\ \E answer \in InsertAnswers(store, r.shortCode), generated \in generateShortCode :
       /\ store' = insertShortUrl(store, answer, r.shortCode, r.originalUrl.value)
       /\ req' = [req EXCEPT ![p] = ShortUITurn(r, answer, generated)]
       /\ created' = IF InsertOk(answer)
                     THEN [created EXCEPT ![r.shortCode] = r.originalUrl]
                     ELSE created
  /\ UNCHANGED env

\* The head of handleApiShort (index.js:254-264): the request, its key and
\* its code query parameter.
ApiRequest(p, path, method, apiKey) ==
  /\ Arrives(p, path, method)
  /\ Route(path) = "handleApiShort"
  /\ apiKey \in ApiKeyHeaders

\* handleApiShort, the key is refused (index.js:255-261).
handleApiShortUnauthorized(p) ==
  /\ req[p].pc = "idle"
  /\ \E path \in PathsOf("handleApiShort"), method \in Methods, apiKey \in ApiKeyHeaders,
        authorization \in OtherAuthorizationHeaders :
       /\ ApiRequest(p, path, method, apiKey)
       /\ ~verifyApiKey(apiKey, env)
       /\ Respond(p, Response(401, "invalidKey", "", ""),
                  [NewRequest(path, method) EXCEPT !.apiKey = apiKey,
                                                  !.authorization = authorization])
       /\ UNCHANGED <<env, store, created>>

\* handleApiShort after the JSON body was read (index.js:270-285): the url
\* check, and the first short code.
ApiBegin(r, originalUrl, custom_code, generated) ==
  LET f == [r EXCEPT !.body = "parsed",
                     !.originalUrl = originalUrl,
                     !.customCode = custom_code]
  IN IF Falsy(originalUrl)
     THEN Returned(f, Response(400, "urlRequired", "", ""))
     ELSE [f EXCEPT !.pc = "insert",
                    !.shortCode = IF Falsy(custom_code) THEN generated
                                  ELSE custom_code.value,
                    !.retries = 0]

\* handleApiShort, POST up to its first insert (index.js:267-285).
handleApiShortPost(p) ==
  /\ req[p].pc = "idle"
  /\ \E path \in PathsOf("handleApiShort"), method \in Methods,
        apiKey \in ApiKeyHeaders, authorization \in OtherAuthorizationHeaders :
       LET r == [NewRequest(path, method) EXCEPT !.apiKey = apiKey,
                                                !.authorization = authorization] IN
       /\ ApiRequest(p, path, method, apiKey)
       /\ verifyApiKey(apiKey, env)
       /\ method = "POST"
       /\ UNCHANGED <<env, store, created>>
       /\ \/ \* the body is no JSON object: caught, line 333
             Respond(p, Response(500, "exception", "", ""),
                     [r EXCEPT !.body = "malformed"])
          \/ \E originalUrl \in UrlInputs, custom_code \in CustomCodeInputs,
                generated \in generateShortCode :
               req' = [req EXCEPT ![p] =
                         ApiBegin(r, originalUrl, custom_code, generated)]

\* handleApiShort, GET with a code (index.js:341-363).
handleApiShortGet(p) ==
  /\ req[p].pc = "idle"
  /\ \E path \in PathsOf("handleApiShort"), method \in Methods, apiKey \in ApiKeyHeaders,
        authorization \in OtherAuthorizationHeaders,
        code \in CodeParams, answer \in QueryAnswers :
       LET f == [NewRequest(path, method) EXCEPT !.apiKey = apiKey, !.code = code,
                                                !.authorization = authorization,
                                                !.selects = @ + 1,
                                                !.answer = answer]
           data == getShortUrl(store, answer, code.value)
       IN /\ ApiRequest(p, path, method, apiKey)
          /\ verifyApiKey(apiKey, env)
          /\ method = "GET"
          /\ ~Falsy(code)
          /\ UNCHANGED <<env, store, created>>
          /\ IF answer = "throw"
             THEN Respond(p, Response(500, "exception", "", ""), f)
             ELSE IF ~data.present
             THEN Respond(p, Response(404, "notFound", "", ""), f)
             ELSE Respond(p, Response(200, "mapping", data.row.short_code,
                                      data.row.original_url), f)

\* handleApiShort, DELETE with a code (index.js:365-380): the response of
\* deleteShortUrl is awaited and not looked at.
handleApiShortDelete(p) ==
  /\ req[p].pc = "idle"
  /\ \E path \in PathsOf("handleApiShort"), method \in Methods, apiKey \in ApiKeyHeaders,
        authorization \in OtherAuthorizationHeaders,
        code \in CodeParams, answer \in QueryAnswers :
       LET f == [NewRequest(path, method) EXCEPT !.apiKey = apiKey, !.code = code,
                                                !.authorization = authorization,
                                                !.deletes = @ + 1,
                                                !.answer = answer]
       IN /\ ApiRequest(p, path, method, apiKey)
          /\ verifyApiKey(apiKey, env)
          /\ method = "DELETE"
          /\ ~Falsy(code)
          /\ store' = deleteShortUrl(store, answer, code.value)
          /\ created' = [created EXCEPT ![code.value] = Absent]
          /\ UNCHANGED env
          /\ IF answer = "throw"
             THEN Respond(p, Response(500, "exception", "", ""), f)
             ELSE Respond(p, Response(200, "deleted", "", ""), f)

\* handleApiShort, anything else (index.js:382-385).
handleApiShortInvalid(p) ==
  /\ req[p].pc = "idle"
  /\ \E path \in PathsOf("handleApiShort"), method \in Methods, apiKey \in ApiKeyHeaders,
        authorization \in OtherAuthorizationHeaders, code \in CodeParams :
       /\ ApiRequest(p, path, method, apiKey)
       /\ verifyApiKey(apiKey, env)
       /\ method # "POST"
       /\ ~(method = "GET" /\ ~Falsy(code))
       /\ ~(method = "DELETE" /\ ~Falsy(code))
       /\ Respond(p, Response(400, "invalidRequest", "", ""),
                  [NewRequest(path, method) EXCEPT !.apiKey = apiKey, !.code = code,
                                                  !.authorization = authorization])
       /\ UNCHANGED <<env, store, created>>

\* A variant of the loop without the retry: any refused insert ends the
\* request with the creation error.
ApiTurnNoRetry(r, answer, generated) ==
  LET f == [r EXCEPT !.inserts = @ + 1, !.outstanding = @ - 1,
                     !.answer = answer]
  IN IF answer = "throw"
     THEN Returned(f, Response(500, "exception", "", ""))
     ELSE IF InsertOk(answer)
     THEN Returned(f, Response(200, "success", r.shortCode, r.originalUrl.value))
     ELSE Returned(f, Response(400, "createFailed", "", ""))

\* The rest of a turn of handleApiShort's retry loop, and the success
\* response after it (index.js:288-338): what the handler does with the
\* table's answer to its insert.
ApiTurn(r, answer, generated) ==
  LET f == [r EXCEPT !.inserts = @ + 1, !.outstanding = @ - 1,
                     !.answer = answer]
      errorText == ErrorText(answer)
  IN IF answer = "throw"
     THEN Returned(f, Response(500, "exception", "", ""))
     ELSE IF InsertOk(answer)
     THEN Returned(f, Response(200, "success", r.shortCode, r.originalUrl.value))
     ELSE IF ~Falsy(r.customCode) /\ isDuplicate(errorText)
     THEN Returned(f, Response(400, "duplicate", r.customCode.value, ""))
     ELSE IF Falsy(r.customCode) /\ isDuplicate(errorText)
             /\ r.retries < maxRetries - 1
     THEN [f EXCEPT !.pc = "insert", !.shortCode = generated, !.retries = @ + 1]
     ELSE Returned(f, Response(400, "createFailed", "", ""))

\* The table answers the insert of a POST to /api-short (index.js:288-338).
ApiInsert(p) ==
  LET r == req[p] IN
  /\ r.pc = "awaiting"
  /\ Route(r.path) = "handleApiShort"
  /\ \E answer \in InsertAnswers(store, r.shortCode), generated \in generateShortCode :
       /\ store' = insertShortUrl(store, answer, r.shortCode, r.originalUrl.value)
       /\ req' = [req EXCEPT ![p] = ApiTurn(r, answer, generated)]
       /\ created' = IF InsertOk(answer)
                     THEN [created EXCEPT ![r.shortCode] = r.originalUrl]
                     ELSE created
  /\ UNCHANGED env

\* Response.redirect(url, 302) throws a TypeError unless url parses as an
\* absolute URL (the worker has no base URL to resolve against).
RedirectThrows(url) == url \notin AbsoluteUrls

\* handleRedirect (index.js:388-402), reached through the router's fallback
\* (index.js:543-548).
handleRedirect(p) ==
  /\ req[p].pc = "idle"
  /\ \E path \in PathsOf("handleRedirect"), method \in Methods, answer \in QueryAnswers :
       LET shortCode == PathCode(path)
           f == [NewRequest(path, method) EXCEPT !.code = Some(shortCode),
                                                !.selects = @ + 1,
                                                !.answer = answer]
           data == getShortUrl(store, answer, shortCode)
       IN /\ Arrives(p, path, method)
          /\ Route(path) = "handleRedirect"
          /\ UNCHANGED <<env, store, created>>
          /\ IF answer = "throw"
             THEN Respond(p, Response(500, "exception", "", ""), f)
             ELSE IF ~data.present
             THEN Respond(p, Response(404, "notFoundPage", "", ""), f)
             ELSE IF RedirectThrows(data.row.original_url)
             THEN Respond(p, Response(500, "exception", "", ""), f)
             ELSE Respond(p, Response(302, "redirect", "", data.row.original_url), f)

\* The response is sent and the invocation ends.
Finish(p) ==
  /\ req[p].pc = "done"
  /\ req' = [req EXCEPT ![p] = IdleRequest]
  /\ UNCHANGED <<env, store, created>>

Next ==
  \E p \in Procs :
    \/ handleIndex(p)
    \/ handleApiDocs(p)
    \/ handleShortUIDenied(p)
    \/ handleShortUIForm(p)
    \/ handleShortUIPost(p)
    \/ insertShortUrlCall(p)
    \/ ShortUIInsert(p)
    \/ handleApiShortUnauthorized(p)
    \/ handleApiShortPost(p)
    \/ handleApiShortGet(p)
    \/ handleApiShortDelete(p)
    \/ handleApiShortInvalid(p)
    \/ ApiInsert(p)
    \/ handleRedirect(p)
    \/ Finish(p)

Spec == Init /\ [][Next]_vars

\* The worker under a runtime that resumes every handler and a store that
\* answers every insert: a create loop that can take a step takes it.
FairSpec ==
  /\ Spec
  /\ \A p \in Procs :
       /\ WF_vars(insertShortUrlCall(p))
       /\ WF_vars(ShortUIInsert(p))
       /\ WF_vars(ApiInsert(p))

(***************************************************************************)
(* The credential check of /short under every configured password         *)
(***************************************************************************)

AuthInit ==
  /\ env \in {[Config EXCEPT !.BASIC_AUTH_PASS = pass] : pass \in Passwords}
  /\ store = {}
  /\ created = [c \in Codes |-> Absent]
  /\ req = [p \in Procs |-> IdleRequest]

AuthNext ==
  \E p \in Procs :
    \/ handleShortUIDenied(p)
    \/ handleShortUIForm(p)
    \/ Finish(p)

AuthSpec == AuthInit /\ [][AuthNext]_vars

(***************************************************************************)
(* Both credential checks under every deployed configuration               *)
(***************************************************************************)

\* env.API_SECRET: not configured (undefined), empty, or a secret.
Secrets == {Absent, Some(""), Some("s3cret")}

\* env.BASIC_AUTH_PASS of the configurations compared.
ConfigPasswords == {<<"p", "p">>, <<"p">>}

\* The deployed configuration with another API secret, or with another UI
\* password.
Configs ==
  {[Config EXCEPT !.API_SECRET = secret] : secret \in Secrets}
    \cup {[Config EXCEPT !.BASIC_AUTH_PASS = pass] : pass \in ConfigPasswords}

ConfigInit ==
  /\ env \in Configs
  /\ store = {}
  /\ created = [c \in Codes |-> Absent]
  /\ req = [p \in Procs |-> IdleRequest]

ConfigSpec == ConfigInit /\ [][Next]_vars

(***************************************************************************)
(* Concurrent Creates: two invocations whose store round trips interleave  *)
(***************************************************************************)

ConcProcs == {"w1", "w2"}

\* The original URL each invocation's requests carry, so that a stored row
\* tells whose insert it was.
ConcUrl == [w1 |-> "https://example.com/long", w2 |-> "example.com"]

\* The requests of the concurrent runs: authenticated POSTs to /short and
\* /api-short that carry nothing for the other scheme, against a table
\* that answers every insert (it stores the row or reports the duplicate).
ConcTraffic(p) ==
  LET r == req'[p] IN
  /\ r.answer \in {"", "created", "unique"}
  /\ r.originalUrl.present => r.originalUrl.value \in {"", ConcUrl[p]}
  /\ Route(r.path) = "handleShortUI"
       => /\ r.authorization = BasicHeader(UserName, Config.BASIC_AUTH_PASS)
          /\ r.apiKey = Absent
  /\ Route(r.path) = "handleApiShort" => r.authorization = NoHeader

ConcInit ==
  /\ env = Config
  /\ store = {}
  /\ created = [c \in Codes |-> Absent]
  /\ req = [p \in ConcProcs |-> IdleRequest]

ConcNext ==
  \E p \in ConcProcs :
    \/ handleShortUIPost(p) /\ ConcTraffic(p)
    \/ insertShortUrlCall(p)
    \/ ShortUIInsert(p) /\ ConcTraffic(p)
    \/ handleApiShortPost(p) /\ ConcTraffic(p)
    \/ ApiInsert(p) /\ ConcTraffic(p)
    \/ Finish(p)

ConcSpec == ConcInit /\ [][ConcNext]_vars

\* The table keeps its declared shape (part_000:4-9).
TypeOK ==
  /\ store \subseteq Rows
  /\ UniqueShortCode(store)
  /\ \A p \in Procs : req[p].body \in BodyStates

(***************************************************************************)
(* Steps and outcomes the properties speak about                           *)
(***************************************************************************)

IsCreate(r) ==
  /\ Route(r.path) \in {"handleShortUI", "handleApiShort"}
  /\ r.method = "POST"

IsLookup(r) ==
  /\ Route(r.path) = "handleApiShort"
  /\ r.method = "GET"
  /\ r.selects = 1

IsDelete(r) ==
  /\ Route(r.path) = "handleApiShort"
  /\ r.method = "DELETE"
  /\ r.deletes = 1

IsRedirect(r) ==
  /\ Route(r.path) = "handleRedirect"
  /\ r.selects = 1

\* The store answers an insert of invocation p in this step.
InsertStep(p) ==
  /\ req[p].pc = "awaiting"
  /\ req'[p].inserts = req[p].inserts + 1

\* Invocation p answers a request in this step.
Answers(p) == req[p].pc # "done" /\ req'[p].pc = "done"

\* The table answered the way its contract says: no failure of the store.
Healthy(answer) == answer \in {"created", "unique", "rows"}

Row(code, url) == [short_code |-> code, original_url |-> url]

(***************************************************************************)
(* Properties                                                              *)
(***************************************************************************)

\* C1: Create/Lookup round trip.  A Create with a non-empty originalUrl
\* reaches the store; with a custom code the table does not hold, and a
\* store that answers, it succeeds with that code and URL; and a Lookup of
\* a code whose last successful Create has not been followed by a Delete
\* returns the mapping with the originalUrl given to that Create.
C1_CreateLookupRoundTrip ==
  /\ [](\A p \in Procs :
          (req[p].pc = "done" /\ IsCreate(req[p]) /\ ~Falsy(req[p].originalUrl))
            => req[p].inserts >= 1)
  /\ [][\A p \in Procs :
          /\ ( /\ InsertStep(p)
               /\ ~Falsy(req[p].customCode)
               /\ Matching(store, req[p].customCode.value) = {}
               /\ Healthy(req'[p].answer) )
             => /\ req'[p].pc = "done"
                /\ req'[p].resp = Response(200, "success",
                                           req[p].customCode.value,
                                           req[p].originalUrl.value)
                /\ created'[req[p].customCode.value] = req[p].originalUrl
          /\ ( /\ Answers(p)
               /\ IsLookup(req'[p])
               /\ Healthy(req'[p].answer)
               /\ created[req'[p].code.value].present )
             => req'[p].resp = Response(200, "mapping", req'[p].code.value,
                                        created[req'[p].code.value].value)
       ]_vars

\* A Lookup has returned the mapping a Create with the custom code "short"
\* stored (the generator never produces that code).
C1_Witness ==
  \E p \in Procs :
    /\ req[p].pc = "done"
    /\ IsLookup(req[p])
    /\ req[p].code = Some("short")
    /\ created["short"].present
    /\ req[p].resp = Response(200, "mapping", "short", created["short"].value)

\* C2: a Create with a custom code the table already holds, which the store
\* rejects as a uniqueness violation, ends at once with the 400
\* duplicate-code error naming that code, after exactly one insert, and the
\* table is left as it was; on the UI flow and on the API flow alike.
C2_DuplicateCustomCode ==
  [][\A p \in Procs :
       ( /\ InsertStep(p)
         /\ ~Falsy(req[p].customCode)
         /\ Matching(store, req[p].customCode.value) # {}
         /\ req'[p].answer = "unique" )
       => /\ req'[p].pc = "done"
          /\ req'[p].resp = Response(400, "duplicate", req[p].customCode.value, "")
          /\ req'[p].inserts = 1
          /\ store' = store
    ]_vars

\* The UI flow has refused a custom code that the table maps to another URL.
C2_Witness ==
  \E p \in Procs :
    /\ req[p].pc = "done"
    /\ Route(req[p].path) = "handleShortUI"
    /\ req[p].resp.kind = "duplicate"
    /\ req[p].answer = "unique"
    /\ \E r \in Matching(store, req[p].customCode.value) :
         r.original_url # req[p].originalUrl.value

\* C3: on the random path every turn of the loop is one insert; an insert
\* the store accepts after N rejections (0 <= N < 5) ends the Create with
\* success after N + 1 inserts, and the response carries the candidate of
\* that accepted insert; a duplicate rejection before the fifth insert is
\* followed by another attempt.
C3_RandomRetrySuccess ==
  [][\A p \in Procs :
       ( InsertStep(p) /\ IsCreate(req[p]) /\ Falsy(req[p].customCode) )
       => /\ req[p].inserts = req[p].retries
          /\ req[p].inserts < 5
          /\ req'[p].answer = "created"
               => /\ req'[p].pc = "done"
                  /\ req'[p].resp = Response(200, "success", req[p].shortCode,
                                             req[p].originalUrl.value)
                  /\ req'[p].inserts = req[p].retries + 1
                  /\ Row(req[p].shortCode, req[p].originalUrl.value) \in store'
          /\ (req'[p].answer = "unique" /\ req[p].inserts < 4)
               => /\ req'[p].pc = "insert"
                  /\ req'[p].retries = req[p].retries + 1
                  /\ req'[p].shortCode \in GenCodes
    ]_vars

\* A Create without a custom code has succeeded on its fifth insert.
C3_Witness ==
  \E p \in Procs :
    /\ req[p].pc = "done"
    /\ Falsy(req[p].customCode)
    /\ req[p].resp.kind = "success"
    /\ req[p].inserts = 5
    /\ Row(req[p].resp.code, req[p].resp.url) \in store

\* C4: on the random path, when the store rejects every insert as a
\* duplicate, the Create ends with the 400 creation error exactly at the
\* fifth insert: the loop goes on after each of the first four rejections,
\* no request ever sends a sixth insert, and no rejected insert changes the
\* table.
C4_RandomRetryExhausted ==
  /\ [](\A p \in Procs : req[p].inserts <= 5)
  /\ [][\A p \in Procs :
          ( /\ InsertStep(p)
            /\ Falsy(req[p].customCode)
            /\ req'[p].answer = "unique" )
          => /\ store' = store
             /\ req[p].inserts < 4 => req'[p].pc = "insert"
             /\ req[p].inserts = 4
                  => /\ req'[p].pc = "done"
                     /\ req'[p].resp = Response(400, "createFailed", "", "")
                     /\ req'[p].inserts = 5
       ]_vars

\* A Create without a custom code has failed after five duplicate
\* rejections.
C4_Witness ==
  \E p \in Procs :
    /\ req[p].pc = "done"
    /\ Falsy(req[p].customCode)
    /\ req[p].answer = "unique"
    /\ req[p].resp.kind = "createFailed"
    /\ req[p].inserts = 5

\* C5: GET /<code> on a path that is no route, with a store that answers the
\* select, is a 302 to the stored original URL when the table holds a
\* mapping for the code, and a 404 page when it holds none.
C5_Redirect ==
  [][\A p \in Procs :
       ( Answers(p) /\ IsRedirect(req'[p]) /\ Healthy(req'[p].answer) )
       => LET rows == Matching(store, req'[p].code.value)
          IN IF rows # {}
             THEN \E r \in rows :
                    req'[p].resp = Response(302, "redirect", "", r.original_url)
             ELSE req'[p].resp.status = 404
    ]_vars

\* C6: a Lookup or a redirect answers 404 only when the store answered the
\* select with zero records; when the select fails, the answer is a store
\* error (500) and never a 404.
C6_MissIsNotFailure ==
  \A p \in Procs :
    (req[p].pc = "done" /\ (IsLookup(req[p]) \/ IsRedirect(req[p])))
    => /\ req[p].resp.status = 404
            => /\ req[p].answer = "rows"
               /\ Matching(store, req[p].code.value) = {}
       /\ req[p].answer # "rows" => req[p].resp.status = 500

\* C7: a Delete whose store call failed is answered with a store error, not
\* with success; so after a Delete answered with success the table holds no
\* mapping for the code.
C7_DeleteReportsFailure ==
  \A p \in Procs :
    (req[p].pc = "done" /\ IsDelete(req[p]))
    => /\ req[p].answer # "rows" => req[p].resp.status = 500
       /\ req[p].resp.kind = "deleted"
            => Matching(store, req[p].code.value) = {}

\* C8: Delete is idempotent.  A Delete touches no mapping of another code;
\* a Delete of a code the table does not hold leaves the table as it is and
\* answers with the same success response as a Delete that removed a
\* mapping; and after a Delete the store carried out the code is absent, so
\* that a second Delete is a Delete of an absent code.
C8_DeleteIdempotent ==
  [][\A p \in Procs :
       ( Answers(p) /\ IsDelete(req'[p]) )
       => LET code == req'[p].code.value
          IN /\ store' \subseteq store
             /\ \A r \in store : r.short_code # code => r \in store'
             /\ req'[p].answer # "throw"
                  => req'[p].resp = Response(200, "deleted", "", "")
             /\ Matching(store, code) = {} => store' = store
             /\ req'[p].answer = "rows" => Matching(store', code) = {}
    ]_vars

\* A Delete of a code the table does not hold was answered with success,
\* and a mapping of another code is still there.
C8_Witness ==
  \E p \in Procs :
    /\ req[p].pc = "done"
    /\ IsDelete(req[p])
    /\ req[p].answer = "rows"
    /\ req[p].resp.kind = "deleted"
    /\ ~created[req[p].code.value].present
    /\ Matching(store, req[p].code.value) = {}
    /\ store # {}

\* The user name and the password a Basic header carries (RFC 7617): the
\* decoded credentials up to the first ":", and everything after it.
SuppliedCredentials(authHeader) ==
  LET credentials == Atob(Base64Credentials(authHeader))
      k == CHOOSE i \in 1..Len(credentials) :
             /\ credentials[i] = Ord(":")
             /\ \A j \in 1..(i - 1) : credentials[j] # Ord(":")
  IN [user |-> SubSeq(credentials, 1, k - 1),
      pass |-> SubSeq(credentials, k + 1, Len(credentials))]

\* The header is a decodable Basic header that carries exactly the
\* configured user name and password.
CredentialsMatch(authHeader, config) ==
  /\ ~NotBasic(authHeader)
  /\ ~AtobThrows(Base64Credentials(authHeader))
  /\ \E i \in 1..Len(Atob(Base64Credentials(authHeader))) :
       Atob(Base64Credentials(authHeader))[i] = Ord(":")
  /\ SuppliedCredentials(authHeader).user = Bytes(config.BASIC_AUTH_USER)
  /\ SuppliedCredentials(authHeader).pass = Bytes(config.BASIC_AUTH_PASS)

\* C9: under every configured password, those holding ":" included, /short
\* lets a request in if and only if its Basic header carries exactly the
\* configured user name and password.
C9_BasicAuthExact ==
  \A p \in Procs :
    (req[p].pc = "done" /\ Route(req[p].path) = "handleShortUI")
    => ( req[p].resp.kind \notin {"authRequired", "uncaught"}
           <=> CredentialsMatch(req[p].authorization, env) )

\* C10: a request to /short whose credentials are absent, of another
\* scheme, undecodable or wrong gets the 401 with the challenge header, and
\* no store operation is made for it.
C10_DeniedIsChallenged ==
  \A p \in Procs :
    ( /\ req[p].pc = "done"
      /\ Route(req[p].path) = "handleShortUI"
      /\ ~CredentialsMatch(req[p].authorization, env) )
    => /\ req[p].resp = requireBasicAuth
       /\ req[p].inserts = 0
       /\ req[p].selects = 0
       /\ req[p].deletes = 0

\* The X-API-Key header carries exactly the configured secret.
ApiKeyMatches(apiKey, config) ==
  /\ config.API_SECRET.present
  /\ apiKey.present
  /\ apiKey.value = config.API_SECRET.value

\* C11: under every configuration of the secret (none configured included),
\* a request to /api-short with no X-API-Key header, or with one that is not
\* the configured secret, is answered with the 401 JSON error, the same for
\* a missing header as for a wrong value, and no insert, select or delete
\* is made for it.
C11_ApiKeyRequired ==
  \A p \in Procs :
    ( /\ req[p].pc # "idle"
      /\ Route(req[p].path) = "handleApiShort"
      /\ ~ApiKeyMatches(req[p].apiKey, env) )
    => /\ req[p].pc = "done"
       /\ req[p].resp = Response(401, "invalidKey", "", "")
       /\ req[p].inserts = 0
       /\ req[p].selects = 0
       /\ req[p].deletes = 0

\* With no secret configured, a DELETE to /api-short without the header was
\* refused.
C11_Witness ==
  \E p \in Procs :
    /\ req[p].pc = "done"
    /\ Route(req[p].path) = "handleApiShort"
    /\ req[p].method = "DELETE"
    /\ ~env.API_SECRET.present
    /\ ~req[p].apiKey.present
    /\ req[p].resp.status = 401

\* The store refused the insert with an error response for a reason other
\* than a uniqueness violation.
OtherFailure(answer) == answer \in {"denied", "mentions"}

\* C12: on both flows, an insert the store refuses for a reason other than
\* a uniqueness violation, whatever the text of its message, ends the
\* Create in that step with the 400 creation error: no retry follows, the
\* error is not the duplicate-code error, and the table is unchanged.
C12_OtherFailureAborts ==
  [][\A p \in Procs :
       ( /\ InsertStep(p)
         /\ IsCreate(req[p])
         /\ OtherFailure(req'[p].answer) )
       => /\ req'[p].pc = "done"
          /\ req'[p].resp = Response(400, "createFailed", "", "")
          /\ store' = store
    ]_vars

\* The request carries the credentials its route asks for.
Authenticated(r, config) ==
  IF Route(r.path) = "handleShortUI"
  THEN CredentialsMatch(r.authorization, config)
  ELSE ApiKeyMatches(r.apiKey, config)

\* C13: a POST to /short or /api-short whose body holds no url, or an empty
\* one, with or without a custom code, is answered 400 when the request is
\* authenticated and 401 when it is not, and no insert is made for it.
C13_MissingUrl ==
  \A p \in Procs :
    ( /\ req[p].pc = "done"
      /\ IsCreate(req[p])
      /\ req[p].body # "malformed"
      /\ Falsy(req[p].originalUrl) )
    => /\ req[p].inserts = 0
       /\ IF Authenticated(req[p], env)
          THEN req[p].resp = Response(400, "urlRequired", "", "")
          ELSE req[p].resp.status = 401

\* The credential check of the route let the request in: /short went on
\* past verifyBasicAuth, /api-short past verifyApiKey.
Admitted(r) ==
  IF Route(r.path) = "handleShortUI"
  THEN r.resp # requireBasicAuth /\ ~(r.resp = Uncaught /\ r.body = "unread")
  ELSE r.resp # Response(401, "invalidKey", "", "")

\* C14: the two schemes are independent.  /api-short lets a request in
\* exactly when its X-API-Key is the configured API secret, whatever its
\* Authorization header and the configured UI password are, so valid Basic
\* credentials (or the UI password sent as a key) without the key are
\* refused; /short lets a request in exactly when its Basic credentials
\* are the configured ones, whatever its X-API-Key and the configured API
\* secret are, so the valid key (or the secret sent as a password) without
\* valid Basic credentials is refused.
C14_SchemesIndependent ==
  \A p \in Procs :
    req[p].pc = "done" =>
      /\ Route(req[p].path) = "handleApiShort"
           => (Admitted(req[p]) <=> ApiKeyMatches(req[p].apiKey, env))
      /\ Route(req[p].path) = "handleShortUI"
           => (Admitted(req[p]) <=> CredentialsMatch(req[p].authorization, env))

\* C15: under every interleaving of the store round trips of two
\* concurrent Creates, the table holds at most one mapping per code; two
\* Creates never both hold a success response for the same code; an insert
\* of a code the table already holds leaves the table unchanged, ends a
\* custom-code Create with the duplicate-code error and sends a
\* random-code Create into another attempt with a new candidate; and every
\* success response names the code that the accepted insert has just mapped
\* to that request's originalUrl.
C15_ConcurrentCreates ==
  /\ [](UniqueShortCode(store))
  /\ [](\A p, q \in ConcProcs :
          ( /\ p # q
            /\ req[p].resp.kind = "success"
            /\ req[q].resp.kind = "success" )
          => req[p].resp.code # req[q].resp.code)
  /\ [][\A p \in ConcProcs :
          InsertStep(p) =>
            LET lost == Matching(store, req[p].shortCode) # {}
                row == Row(req[p].shortCode, req[p].originalUrl.value)
            IN /\ lost => store' = store
               /\ (lost /\ ~Falsy(req[p].customCode))
                    => /\ req'[p].pc = "done"
                       /\ req'[p].resp =
                            Response(400, "duplicate", req[p].customCode.value, "")
               /\ (lost /\ Falsy(req[p].customCode) /\ req[p].retries < 4)
                    => /\ req'[p].pc = "insert"
                       /\ req'[p].retries = req[p].retries + 1
                       /\ req'[p].shortCode \in GenCodes
               /\ req'[p].resp.kind = "success"
                    => /\ ~lost
                       /\ req'[p].resp.code = req[p].shortCode
                       /\ req'[p].resp.url = req[p].originalUrl.value
                       /\ Matching(store', req[p].shortCode) = {row}
       ]_vars

\* Two random-code Creates raced for a candidate: one holds its success
\* response for it, the other was refused and is in its next attempt.
C15_Witness ==
  \E p, q \in ConcProcs :
    /\ p # q
    /\ Falsy(req[p].customCode)
    /\ req[p].resp.kind = "success"
    /\ req[p].inserts = 1
    /\ req[q].pc = "insert"
    /\ Falsy(req[q].customCode)
    /\ req[q].retries = 1
    /\ req[q].answer = "unique"
    /\ Matching(store, req[p].resp.code) = {Row(req[p].resp.code, ConcUrl[p])}
    /\ Cardinality(store) = 1

\* C16: mappings are never updated in place.  In every step, the mapping of
\* a code either stays as it is, or is removed by a Delete of that code, or
\* is added, for a code that had none, by the accepted insert of a Create
\* that answers success with that code and URL; a Create that does not end
\* in success, and every Lookup and redirect, leave the table unchanged.
C16_NeverUpdatedInPlace ==
  [][/\ \A c \in Codes :
          LET before == Matching(store, c)
              after  == Matching(store', c)
          IN /\ (before # {} /\ after # before)
                  => /\ after = {}
                     /\ \E p \in Procs :
                          /\ Answers(p)
                          /\ IsDelete(req'[p])
                          /\ req'[p].code.value = c
             /\ (before = {} /\ after # {})
                  => \E p \in Procs :
                       /\ InsertStep(p)
                       /\ IsCreate(req[p])
                       /\ req'[p].resp = Response(200, "success", c,
                                                  req[p].originalUrl.value)
                       /\ after = {Row(c, req[p].originalUrl.value)}
     /\ \A p \in Procs :
          /\ ( /\ InsertStep(p)
               /\ req'[p].resp.kind # "success" ) => store' = store
          /\ ( /\ Answers(p)
               /\ IsCreate(req'[p])
               /\ req'[p].resp.kind # "success" ) => store' = store
          /\ ( /\ Answers(p)
               /\ (IsLookup(req'[p]) \/ IsRedirect(req'[p])) ) => store' = store
    ]_vars

\* The API flow has refused a custom code whose mapping, the one stored by
\* the last successful Create of that code, holds another URL than the
\* request's, and the table holds a second mapping as well.
C16_Witness ==
  \E p \in Procs :
    /\ req[p].pc = "done"
    /\ Route(req[p].path) = "handleApiShort"
    /\ req[p].resp.kind = "duplicate"
    /\ created[req[p].customCode.value].present
    /\ created[req[p].customCode.value] # req[p].originalUrl
    /\ Matching(store, req[p].customCode.value)
         = {Row(req[p].customCode.value, created[req[p].customCode.value].value)}
    /\ Cardinality(store) = 2

\* The credential check of the request's route returned true.
PassedCheck(r, config) ==
  IF Route(r.path) = "handleShortUI"
  THEN ~verifyBasicAuthThrows(r.authorization)
         /\ verifyBasicAuth(r.authorization, config)
  ELSE Route(r.path) = "handleApiShort" /\ ApiKeyMatches(r.apiKey, config)

\* C17: the table changes only in a step in which a request sends an
\* insert or a delete; a request sends an insert only as a POST to /short
\* or /api-short that passed its route's credential check, and a delete
\* only as a DELETE to /api-short that passed the API-key check; requests
\* to /, /api-docs and /<code> are never answered 401 and send no insert
\* and no delete, a redirect sends exactly one select and the two pages
\* none.
C17_MutationsBehindCheck ==
  /\ [][store' # store
          => \E p \in Procs : \/ req'[p].inserts = req[p].inserts + 1
                              \/ req'[p].deletes = req[p].deletes + 1]_vars
  /\ [](\A p \in Procs :
          LET r == req[p] IN
          /\ (r.pc \in {"insert", "awaiting"} \/ r.inserts > 0)
               => /\ IsCreate(r)
                  /\ PassedCheck(r, env)
          /\ r.deletes > 0
               => /\ Route(r.path) = "handleApiShort"
                  /\ r.method = "DELETE"
                  /\ PassedCheck(r, env)
          /\ (r.pc = "done" /\ Route(r.path) \in {"handleIndex", "handleApiDocs"})
               => /\ r.resp.status = 200
                  /\ r.inserts = 0 /\ r.selects = 0 /\ r.deletes = 0
          /\ (r.pc = "done" /\ Route(r.path) = "handleRedirect")
               => /\ r.resp.status # 401
                  /\ r.inserts = 0 /\ r.selects = 1 /\ r.deletes = 0)

\* A POST to /short that passed the UI check has sent two inserts and is
\* about to send a third, with a mapping in the table.
C17_Witness ==
  \E p \in Procs :
    /\ req[p].pc = "insert"
    /\ Route(req[p].path) = "handleShortUI"
    /\ req[p].method = "POST"
    /\ PassedCheck(req[p], env)
    /\ req[p].inserts = 2
    /\ store # {}

\* The handler classified the answer to its insert as a duplicate.
ClassifiedDuplicate(answer) == answer \in {"unique", "mentions"}

\* C18: the retry loop is sequential and bounded.  A request has an insert
\* outstanding exactly while it awaits the store, and never more than one;
\* a new candidate is generated only in the step in which the answer to
\* the previous insert arrives and is classified as a duplicate, on the
\* random path; no request gets more than 5 inserts answered, a request
\* with a custom code no more than 1; and when the store answers every
\* insert, a Create that has entered the loop ends with a response.
C18_RetryLoopBounded ==
  /\ [](\A p \in Procs :
          /\ req[p].outstanding \in {0, 1}
          /\ req[p].outstanding = 1 <=> req[p].pc = "awaiting"
          /\ req[p].inserts + req[p].outstanding <= 5
          /\ ~Falsy(req[p].customCode)
               => req[p].inserts + req[p].outstanding <= 1)
  /\ [][\A p \in Procs :
          /\ req'[p].retries = req[p].retries + 1
               => /\ InsertStep(p)
                  /\ Falsy(req[p].customCode)
                  /\ ClassifiedDuplicate(req'[p].answer)
                  /\ req'[p].outstanding = 0
                  /\ req'[p].shortCode \in GenCodes
          /\ (req[p].pc \in {"insert", "awaiting"}
                /\ req'[p].shortCode # req[p].shortCode)
               => req'[p].retries = req[p].retries + 1
       ]_vars
  /\ \A p \in Procs :
       (req[p].pc \in {"insert", "awaiting"}) ~> (req[p].pc = "done")

\* A request without a custom code awaits the answer to its fifth insert,
\* after four answers classified as duplicates.
C18_Witness ==
  \E p \in Procs :
    /\ req[p].pc = "awaiting"
    /\ Falsy(req[p].customCode)
    /\ req[p].outstanding = 1
    /\ req[p].inserts = 4
    /\ req[p].retries = 4
    /\ ClassifiedDuplicate(req[p].answer)

\* C19: every code a Create has answered success for, the code "short"
\* among them, is served by the redirect route: while its mapping is not
\* deleted and the store answers, a GET of /<code> is answered with the 302
\* to the original URL of that Create (an absolute URL here).
C19_CreatedCodeRedirects ==
  [][\A p \in Procs : \A c \in Codes :
       ( /\ Answers(p)
         /\ req'[p].method = "GET"
         /\ req'[p].path = "/" \o c
         /\ created[c].present
         /\ created[c].value \in AbsoluteUrls
         /\ req'[p].answer \in {"", "rows"} )
       => req'[p].resp = Response(302, "redirect", "", created[c].value)
    ]_vars

\* What a Create has come to: where it stands, the response it returned
\* (status, class, the code and URL it names), and the insert it sends next.
Outcome(r) ==
  [pc |-> r.pc, status |-> r.resp.status, class |-> r.resp.kind,
   code |-> r.resp.code, url |-> r.resp.url,
   originalUrl |-> r.originalUrl, customCode |-> r.customCode,
   shortCode |-> r.shortCode, retries |-> r.retries,
   inserts |-> r.inserts, outstanding |-> r.outstanding]

\* C20: the UI flow and the API flow implement the same Create.  For the
\* same originalUrl, custom code and first candidate both begin alike (the
\* validation error, or the same first insert); and from every point of the
\* loop a request reaches, for the same answer of the store and the same
\* next candidate, both take the same turn: the same response class,
\* status and short code, or the same next insert.
C20_FlowsEquivalent ==
  /\ \A originalUrl \in UrlInputs, customCode \in CustomCodeInputs,
        generated \in generateShortCode :
       Outcome(ShortUIBegin(NewRequest("/short", "POST"),
                            originalUrl, customCode, generated))
         = Outcome(ApiBegin(NewRequest("/api-short", "POST"),
                            originalUrl, customCode, generated))
  /\ \A p \in Procs :
       req[p].pc = "awaiting"
         => \A answer \in InsertAnswers(store, req[p].shortCode),
               generated \in generateShortCode :
              Outcome(ShortUITurn(req[p], answer, generated))
                = Outcome(ApiTurn(req[p], answer, generated))

\* A POST to /short awaits the answer to its third insert, and for a
\* duplicate answer both flows go on to a fourth insert of the same
\* candidate.
C20_Witness ==
  \E p \in Procs :
    /\ req[p].pc = "awaiting"
    /\ Route(req[p].path) = "handleShortUI"
    /\ req[p].retries = 2
    /\ "unique" \in InsertAnswers(store, req[p].shortCode)
    /\ \A generated \in generateShortCode :
         /\ ShortUITurn(req[p], "unique", generated).pc = "insert"
         /\ ApiTurn(req[p], "unique", generated).shortCode = generated

====
